---- MODULE Spec2Model ----
(***************************************************************************)
(* Model of password_checker.py: the PasswordAnalyzer class (loader of the *)
(* common-password set, entropy estimate, pattern check, analyze) and the  *)
(* caller's loop that feeds it passwords.                                  *)
(*                                                                         *)
(* A password is a sequence of characters; a character is a one-symbol     *)
(* string.  The two non-ASCII letters used as inputs are written by their  *)
(* code points, "U+00E9" (e acute) and "U+00C9" (E acute).                 *)
(* Entropy is a float rounded to 2 decimals in the source; here it is the  *)
(* integer number of hundredths of a bit (37.6 bits is 3760).              *)
(***************************************************************************)
EXTENDS Integers, Sequences, FiniteSets, TLC

VARIABLES pc, source, common_passwords, raised, log, attempts,
          password, result, memo

vars == <<pc, source, common_passwords, raised, log, attempts,
          password, result, memo>>

(***************************************************************************)
(* Configuration constants (password_checker.py lines 22-31)               *)
(***************************************************************************)
MIN_LENGTH == 8
RECOMMENDED_LENGTH == 12
\* 50.0 and 80.0 bits, in hundredths of a bit
ENTROPY_THRESHOLD_WEAK == 5000
ENTROPY_THRESHOLD_STRONG == 8000
CHARSET_SIZES == [lowercase |-> 26, uppercase |-> 26, digits |-> 10, special |-> 32]

(***************************************************************************)
(* Characters and the str methods the program uses                         *)
(***************************************************************************)
ASCII_LOWER == <<"a","b","c","d","e","f","g","h","i","j","k","l","m",
                 "n","o","p","q","r","s","t","u","v","w","x","y","z">>
ASCII_UPPER == <<"A","B","C","D","E","F","G","H","I","J","K","L","M",
                 "N","O","P","Q","R","S","T","U","V","W","X","Y","Z">>

\* the character classes of the regular expressions [a-z], [A-Z], [0-9]
LowercaseClass == {ASCII_LOWER[i] : i \in 1..26}
UppercaseClass == {ASCII_UPPER[i] : i \in 1..26}
DigitClass == {"0","1","2","3","4","5","6","7","8","9"}
\* [^a-zA-Z0-9]: every character outside the three classes above
AlnumClass == LowercaseClass \cup UppercaseClass \cup DigitClass
SpecialClass(c) == c \notin AlnumClass

\* the characters str.strip() removes
Whitespace == {" ", "\t", "\n", "\r", "\f"}

\* str.lower() on one character
LOWER_OF_UPPER ==
    [c \in UppercaseClass |-> ASCII_LOWER[CHOOSE i \in 1..26 : ASCII_UPPER[i] = c]]

LowerChar(c) ==
    IF c \in UppercaseClass THEN LOWER_OF_UPPER[c]
    ELSE IF c = "U+00C9" THEN "U+00E9" ELSE c

\* str.lower()
Lower(s) == [i \in 1..Len(s) |-> LowerChar(s[i])]

\* str.strip(): drop leading and trailing whitespace
RECURSIVE LStrip(_)
LStrip(s) == IF s # <<>> /\ Head(s) \in Whitespace THEN LStrip(Tail(s)) ELSE s

RECURSIVE RStrip(_)
RStrip(s) ==
    IF s # <<>> /\ s[Len(s)] \in Whitespace
    THEN RStrip(SubSeq(s, 1, Len(s) - 1)) ELSE s

Strip(s) == RStrip(LStrip(s))

\* sub in s
Contains(s, sub) ==
    \E i \in 1..(Len(s) - Len(sub) + 1) : SubSeq(s, i, i + Len(sub) - 1) = sub

\* one character against the class of a pattern: [a-z], [A-Z], [0-9], [^a-zA-Z0-9]
Matches(class, c) ==
    CASE class = "lowercase" -> c \in LowercaseClass
      [] class = "uppercase" -> c \in UppercaseClass
      [] class = "digits" -> c \in DigitClass
      [] class = "special" -> SpecialClass(c)

\* re.search(pattern, s) for a one-character class
Search(class, s) == \E i \in 1..Len(s) : Matches(class, s[i])

\* min(a, b)
Min(a, b) == IF a < b THEN a ELSE b

(***************************************************************************)
(* math.log2 and round(., 2)                                               *)
(***************************************************************************)
\* floor(log2(n) * 10^6) for the charset sizes calculate_entropy can sum up
Log2Micro(n) ==
    CASE n = 10 -> 3321928
      [] n = 26 -> 4700439
      [] n = 32 -> 5000000
      [] n = 36 -> 5169925
      [] n = 42 -> 5392317
      [] n = 52 -> 5700439
      [] n = 58 -> 5857980
      [] n = 62 -> 5954196
      [] n = 68 -> 6087462
      [] n = 84 -> 6392317
      [] n = 94 -> 6554588

\* round(x, 2) of x given in millionths, as hundredths
Round2(micro) == (micro + 5000) \div 10000

(***************************************************************************)
(* PasswordAnalyzer._load_common_passwords (lines 46-56)                   *)
(***************************************************************************)
DEFAULT_COMMON ==
    { <<"p","a","s","s","w","o","r","d">>,
      <<"1","2","3","4","5","6">>,
      <<"q","w","e","r","t","y">>,
      <<"a","d","m","i","n","1","2","3">>,
      <<"l","e","t","m","e","i","n">> }

\* {line.strip().lower() for line in f if line.strip()}
ParseLines(lines) ==
    { Lower(Strip(lines[i])) : i \in {j \in 1..Len(lines) : Strip(lines[j]) # <<>>} }

\* The outcome of one call on a file in state f: the set returned, whether an
\* exception leaves the method, and what is logged.
_load_common_passwords(f) ==
    IF f.exists /\ ~f.readable
    THEN \* open / read / decode raises inside the try: the except branch
         [set |-> {}, raised |-> FALSE,
          log |-> <<"ERROR", "Error loading common passwords">>]
    ELSE IF f.exists
    THEN [set |-> ParseLines(f.lines), raised |-> FALSE, log |-> <<>>]
    ELSE [set |-> DEFAULT_COMMON, raised |-> FALSE,
          log |-> <<"WARNING", "Common passwords file not found. Using minimal set.">>]

(***************************************************************************)
(* PasswordAnalyzer.calculate_entropy (lines 58-72)                        *)
(***************************************************************************)
CharsetSize(pw) ==
      (IF Search("lowercase", pw) THEN CHARSET_SIZES.lowercase ELSE 0)
    + (IF Search("uppercase", pw) THEN CHARSET_SIZES.uppercase ELSE 0)
    + (IF Search("digits", pw) THEN CHARSET_SIZES.digits ELSE 0)
    + (IF Search("special", pw) THEN CHARSET_SIZES.special ELSE 0)

calculate_entropy(pw) ==
    LET charset_size == CharsetSize(pw)
    IN IF charset_size = 0 THEN 0
       ELSE Round2(Len(pw) * Log2Micro(charset_size))

(***************************************************************************)
(* PasswordAnalyzer.check_patterns (lines 74-82)                           *)
(***************************************************************************)
WEAK_SUBSTRINGS ==
    << <<"a","b","c">>, <<"1","2","3">>, <<"q","w","e">>, <<"a","s","d","f">> >>

\* re.search(r"(.)\1{2,}", pw): "." matches any character except a newline
RepeatedChar(pw) ==
    \E i \in 1..(Len(pw) - 2) :
        /\ pw[i] # "\n"
        /\ pw[i + 1] = pw[i]
        /\ pw[i + 2] = pw[i]

check_patterns(pw) ==
    \/ RepeatedChar(pw)
    \/ LET lowered == Lower(pw)
       IN \E k \in 1..Len(WEAK_SUBSTRINGS) : Contains(lowered, WEAK_SUBSTRINGS[k])

(***************************************************************************)
(* PasswordAnalyzer.analyze (lines 84-141)                                 *)
(*                                                                         *)
(* A feedback line is the tuple of the pieces of its f-string.  Each       *)
(* section of the method is an operator from the score so far to the       *)
(* feedback lines it appends and the score it leaves.                      *)
(***************************************************************************)
EMPTY_RESULT ==
    [strength |-> "Invalid", score |-> 0, entropy |-> 0,
     feedback |-> << <<"Password cannot be empty.">> >>]

\* Length checks (lines 92-100)
LengthCheck(pw, score) ==
    IF Len(pw) < MIN_LENGTH
    THEN [feedback |-> << <<"Password too short. Use at least ", MIN_LENGTH, " characters.">> >>,
          score |-> score]
    ELSE IF Len(pw) >= RECOMMENDED_LENGTH
    THEN [feedback |-> << <<"Excellent! Password length is strong (", RECOMMENDED_LENGTH, "+ characters).">> >>,
          score |-> score + 3]
    ELSE [feedback |-> << <<"Good length, but consider ", RECOMMENDED_LENGTH, "+ characters.">> >>,
          score |-> score + 1]

\* Mutant: a special character earns 1 point, like the other classes.
CHECKS_special_one_point ==
    << [class |-> "lowercase", desc |-> "lowercase letters", points |-> 1],
       [class |-> "uppercase", desc |-> "uppercase letters", points |-> 1],
       [class |-> "digits", desc |-> "numbers", points |-> 1],
       [class |-> "special", desc |-> "special characters", points |-> 1] >>

\* Character type checks (lines 102-114): the table of checks, in order
CHECKS ==
    << [class |-> "lowercase", desc |-> "lowercase letters", points |-> 1],
       [class |-> "uppercase", desc |-> "uppercase letters", points |-> 1],
       [class |-> "digits", desc |-> "numbers", points |-> 1],
       [class |-> "special", desc |-> "special characters", points |-> 2] >>

\* the for loop over checks, from entry k on
RECURSIVE CharacterTypeLoop(_, _, _, _)
CharacterTypeLoop(pw, k, feedback, score) ==
    IF k > Len(CHECKS) THEN [feedback |-> feedback, score |-> score]
    ELSE IF Search(CHECKS[k].class, pw)
    THEN CharacterTypeLoop(pw, k + 1,
             Append(feedback, <<"Contains ", CHECKS[k].desc, ": Good.">>),
             score + CHECKS[k].points)
    ELSE CharacterTypeLoop(pw, k + 1,
             Append(feedback, <<"Add ", CHECKS[k].desc, " for better strength.">>),
             score)

CharacterTypeChecks(pw, score) == CharacterTypeLoop(pw, 1, <<>>, score)

COMMON_WARNING == <<"WARNING: Common password detected! Easily guessable.">>
PATTERN_WARNING == <<"WARNING: Predictable pattern detected (e.g., sequences).">>

\* Mutant: the pattern check is an "if", not an "elif".
CommonAndPatternChecks_if(common, pw, score) ==
    LET c == IF Lower(pw) \in common
             THEN [feedback |-> <<COMMON_WARNING>>, score |-> 0]
             ELSE [feedback |-> <<>>, score |-> score]
    IN IF check_patterns(pw)
       THEN [feedback |-> Append(c.feedback, PATTERN_WARNING), score |-> Min(c.score, 2)]
       ELSE c

\* Mutant: the pattern branch warns but does not cap the score.
CommonAndPatternChecks_nocap(common, pw, score) ==
    IF Lower(pw) \in common
    THEN [feedback |-> <<COMMON_WARNING>>, score |-> 0]
    ELSE IF check_patterns(pw)
    THEN [feedback |-> <<PATTERN_WARNING>>, score |-> score]
    ELSE [feedback |-> <<>>, score |-> score]

\* Common password and pattern checks (lines 116-122)
CommonAndPatternChecks(common, pw, score) ==
    IF Lower(pw) \in common
    THEN [feedback |-> <<COMMON_WARNING>>, score |-> 0]
    ELSE IF check_patterns(pw)
    THEN [feedback |-> <<PATTERN_WARNING>>, score |-> Min(score, 2)]
    ELSE [feedback |-> <<>>, score |-> score]

EntropyLine(entropy) == <<"Password entropy: ", entropy, " bits.">>
LOW_ENTROPY == <<"Low entropy; use a longer or more complex password.">>
HIGH_ENTROPY == <<"High entropy: Excellent brute-force resistance!">>

\* Entropy calculation (lines 124-131)
EntropyCheck(entropy, score) ==
    IF entropy < ENTROPY_THRESHOLD_WEAK
    THEN [feedback |-> <<EntropyLine(entropy), LOW_ENTROPY>>, score |-> score]
    ELSE IF entropy >= ENTROPY_THRESHOLD_STRONG
    THEN [feedback |-> <<EntropyLine(entropy), HIGH_ENTROPY>>, score |-> score + 2]
    ELSE [feedback |-> <<EntropyLine(entropy)>>, score |-> score]

\* Mutant: the Strong threshold is exclusive.
StrengthRating_exclusive(score) ==
    IF score > 10 THEN "Strong" ELSE IF score >= 6 THEN "Moderate" ELSE "Weak"

\* Strength rating (line 134)
StrengthRating(score) ==
    IF score >= 10 THEN "Strong" ELSE IF score >= 6 THEN "Moderate" ELSE "Weak"

\* lines 89-141: the checks on a non-empty password
analyze_checks(common, pw) ==
    LET s1 == LengthCheck(pw, 0)
        s2 == CharacterTypeChecks(pw, s1.score)
        s3 == CommonAndPatternChecks(common, pw, s2.score)
        entropy == calculate_entropy(pw)
        s4 == EntropyCheck(entropy, s3.score)
    IN [strength |-> StrengthRating(s4.score),
        score |-> s4.score,
        entropy |-> entropy,
        feedback |-> s1.feedback \o s2.feedback \o s3.feedback \o s4.feedback]

\* Mutant: the empty-password guard of line 86 is missing.
analyze_unguarded(common, pw) == analyze_checks(common, pw)

analyze(common, pw) ==
    IF pw = <<>> THEN EMPTY_RESULT ELSE analyze_checks(common, pw)

(***************************************************************************)
(* Inputs: the states of the common-password file and the passwords the    *)
(* caller supplies                                                         *)
(***************************************************************************)
\* the longest filler appended to a head (a password is at most 8 longer)
MaxFill == 14
\* the most lines a common-password file holds
MaxLines == 2
\* the count of calls after the remembered one saturates here
MaxLater == 2

\* w repeated cyclically to length n
Tile(w, n) == [i \in 1..n |-> w[((i - 1) % Len(w)) + 1]]

Heads ==
    { <<>>,
      <<"a","b","c">>, <<"1","2","3">>, <<"q","w","e">>, <<"a","s","d","f">>,
      <<"A","B","C">>, <<"Q","w","E">>, <<"a","s","d">>,
      <<"p","a","s","s","w","o","r","d">>, <<"1","2","3","4","5","6">>,
      <<"q","w","e","r","t","y">>, <<"a","d","m","i","n","1","2","3">>,
      <<"l","e","t","m","e","i","n">>, <<"P","a","s","s","W","o","r","d">> }

Fillers ==
    { <<"a">>, <<"Z">>, <<"7">>, <<"!">>, <<" ">>, <<"\n">>, <<"U+00C9">>,
      <<"a","A">>, <<"x","7">>, <<"k","U+00E9">>, <<"x","Y","!">>,
      <<"a","B","3","!">> }

Passwords == { h \o Tile(w, n) : h \in Heads, w \in Fillers, n \in 0..MaxFill }

\* the passwords of the repeated-call runs
IdemPasswords ==
    { h \o Tile(w, n) :
        h \in { <<>>, <<"a","b","c">>, <<"P","a","s","s","W","o","r","d">> },
        w \in { <<"a">>, <<"\n">>, <<"a","A">>, <<"a","B","3","!">> },
        n \in {0, 3, MaxFill} }

\* lines as iterating the open file yields them
LINE_POOL ==
    { <<"\n">>,
      <<" ","L","e","t","M","e","I","n"," ","\n">>,
      <<"\t","A","B","C">> \o Tile(<<"A","b","3","!">>, 11) \o <<"\n">> }

RECURSIVE SeqsUpTo(_, _)
SeqsUpTo(S, n) ==
    IF n = 0 THEN {<<>>}
    ELSE LET shorter == SeqsUpTo(S, n - 1)
         IN shorter \cup { Append(q, x) : q \in shorter, x \in S }

\* the file is absent, present but unreadable, or present with some lines
Files ==
    { [exists |-> FALSE, readable |-> FALSE, lines |-> <<>>] }
    \cup { [exists |-> TRUE, readable |-> FALSE, lines |-> ls] : ls \in {<<>>, <<<<"\n">>>>} }
    \cup { [exists |-> TRUE, readable |-> TRUE, lines |-> ls] : ls \in SeqsUpTo(LINE_POOL, MaxLines) }

(***************************************************************************)
(* State machine                                                           *)
(***************************************************************************)
NO_FILE == [exists |-> FALSE, readable |-> FALSE, lines |-> <<>>]
NO_RESULT == [strength |-> "", score |-> 0, entropy |-> 0, feedback |-> <<>>]
\* memo is a history variable: one earlier call (its password and result), the
\* number of calls made since (saturating at MaxLater) and whether one of them
\* was on another password
NO_MEMO == [set |-> FALSE, password |-> <<>>, result |-> NO_RESULT,
            later |-> 0, other |-> FALSE]

Later(m, p) ==
    IF m.set
    THEN [m EXCEPT !.later = Min(@ + 1, MaxLater), !.other = @ \/ p # m.password]
    ELSE m

Init ==
    /\ pc = "start"
    /\ source = NO_FILE
    /\ common_passwords = {}
    /\ raised = FALSE
    /\ log = <<>>
    /\ attempts = 0
    /\ password = <<>>
    /\ result = NO_RESULT
    /\ memo = NO_MEMO

\* PasswordAnalyzer.__init__ (lines 42-44) with the file in state f
Construct(f) ==
    /\ pc = "start"
    /\ LET r == _load_common_passwords(f)
       IN /\ common_passwords' = r.set
          /\ raised' = r.raised
          /\ log' = r.log
    /\ source' = f
    /\ attempts' = attempts + 1
    /\ pc' = "ready"
    /\ UNCHANGED <<password, result, memo>>

\* Mutant: analyze caches the password it saw in the common set.
Analyze_caching(p) ==
    /\ pc = "ready"
    /\ password' = p
    /\ result' = analyze(common_passwords, p)
    /\ common_passwords' = common_passwords \cup {Lower(p)}
    /\ pc' = "returned"
    /\ memo' = Later(memo, p)
    /\ UNCHANGED <<source, raised, log, attempts>>

\* result = analyzer.analyze(password) (line 179, lines 84-141)
Analyze(p) ==
    /\ pc = "ready"
    /\ password' = p
    /\ result' = analyze(common_passwords, p)
    /\ pc' = "returned"
    /\ memo' = Later(memo, p)
    /\ UNCHANGED <<source, common_passwords, raised, log, attempts>>

\* display_results(result) (lines 180-181): the result is rendered and the
\* loop iteration ends; its locals are dead until the next call rebinds them
Display ==
    /\ pc = "returned"
    /\ password' = <<>>
    /\ result' = NO_RESULT
    /\ pc' = "ready"
    /\ UNCHANGED <<source, common_passwords, raised, log, attempts, memo>>

\* The caller keeps the first result it wants to compare later calls with.
Remember ==
    /\ pc = "returned"
    /\ ~memo.set
    /\ memo' = [set |-> TRUE, password |-> password, result |-> result,
                later |-> 0, other |-> FALSE]
    /\ UNCHANGED <<pc, source, common_passwords, raised, log, attempts, password, result>>

Next ==
    \/ pc = "start" /\ \E f \in Files : Construct(f)
    \/ pc = "ready" /\ \E p \in Passwords : Analyze(p)
    \/ Display

Spec == Init /\ [][Next]_vars

NextIdem ==
    \/ pc = "start" /\ \E f \in Files : Construct(f)
    \/ pc = "ready" /\ \E p \in IdemPasswords : Analyze(p)
    \/ Remember
    \/ Display

SpecIdem == Init /\ [][NextIdem]_vars

(***************************************************************************)
(* Properties                                                              *)
(*                                                                         *)
(* The predicates of this section are written from the statements being    *)
(* checked, not from the operators of the model above.                     *)
(***************************************************************************)
Returned == pc = "returned"
NonEmpty == password # <<>>
IsCommon == Lower(password) \in common_passwords

HasLower(pw) == \E i \in 1..Len(pw) : pw[i] \in LowercaseClass
HasUpper(pw) == \E i \in 1..Len(pw) : pw[i] \in UppercaseClass
HasDigit(pw) == \E i \in 1..Len(pw) : pw[i] \in DigitClass
HasSpecial(pw) == \E i \in 1..Len(pw) : pw[i] \notin AlnumClass

\* a character repeated 3 or more times consecutively
RepeatedRun(pw) == \E i \in 1..(Len(pw) - 2) : pw[i] = pw[i + 1] /\ pw[i + 1] = pw[i + 2]

\* the lower-cased password contains "abc", "123", "qwe" or "asdf"
WeakSubstring(pw) ==
    \E sub \in { <<"a","b","c">>, <<"1","2","3">>, <<"q","w","e">>, <<"a","s","d","f">> } :
        Contains(Lower(pw), sub)

PredictablePattern(pw) == RepeatedRun(pw) \/ WeakSubstring(pw)

LengthPoints(pw) == IF Len(pw) < 8 THEN 0 ELSE IF Len(pw) <= 11 THEN 1 ELSE 3

ClassPoints(pw) ==
      (IF HasLower(pw) THEN 1 ELSE 0) + (IF HasUpper(pw) THEN 1 ELSE 0)
    + (IF HasDigit(pw) THEN 1 ELSE 0) + (IF HasSpecial(pw) THEN 2 ELSE 0)

\* entropy in hundredths of a bit: 80.0 bits is 8000
EntropyBonus(entropy) == IF entropy >= 8000 THEN 2 ELSE 0

HasWarning(fb) == \E i \in 1..Len(fb) : fb[i] = COMMON_WARNING \/ fb[i] = PATTERN_WARNING

\* C1: every non-empty password whose lower-cased form is in the common set
\* gets score 0, whatever its length, classes and entropy.
C1_CommonScoresZero ==
    (Returned /\ NonEmpty /\ IsCommon) => result.score = 0

\* C2: a password with a character repeated 3 or more times in a row, or with
\* a weak substring in its lower-cased form, never scores above 2.
C2_PatternScoreAtMostTwo ==
    (Returned /\ NonEmpty /\ PredictablePattern(password)) => result.score <= 2

\* C3: when the source is absent or present but unreadable, the loader makes
\* one attempt, raises nothing, and the set it leaves contains the built-in
\* defaults "password", "123456", "qwerty", "admin123", "letmein".
C3_SoftFallbackToDefault ==
    (pc # "start" /\ (~source.exists \/ ~source.readable)) =>
        /\ attempts = 1
        /\ ~raised
        /\ { <<"p","a","s","s","w","o","r","d">>, <<"1","2","3","4","5","6">>,
             <<"q","w","e","r","t","y">>, <<"a","d","m","i","n","1","2","3">>,
             <<"l","e","t","m","e","i","n">> } \subseteq common_passwords

\* C4: analyze on the empty password returns exactly strength Invalid, score
\* 0, entropy 0.0 and the single feedback line "Password cannot be empty.",
\* whatever the common set holds.
C4_EmptyShortCircuits ==
    (Returned /\ password = <<>>) =>
        /\ result.strength = "Invalid"
        /\ result.score = 0
        /\ result.entropy = 0
        /\ result.feedback = << <<"Password cannot be empty.">> >>

\* the empty password analysed by an analyzer whose common set is not empty
C4_Witness ==
    /\ Returned /\ password = <<>>
    /\ common_passwords # {}
    /\ result.strength = "Invalid"

\* C5: for a non-empty password the returned strength is Strong exactly when
\* the returned score is >= 10, Moderate exactly when it is 6..9 and Weak
\* exactly when it is <= 5.
C5_StrengthMatchesScore ==
    (Returned /\ NonEmpty) =>
        /\ result.strength = "Strong" <=> result.score >= 10
        /\ result.strength = "Moderate" <=> (result.score >= 6 /\ result.score <= 9)
        /\ result.strength = "Weak" <=> result.score <= 5

\* a password whose returned score is exactly the Strong boundary
C5_Witness ==
    /\ Returned /\ NonEmpty
    /\ result.score = 10
    /\ result.strength = "Strong"

\* C6: for a non-empty password that is not common and has no predictable
\* pattern, score = lengthPoints + classPoints + entropyBonus.
C6_ScoreIsSumOfPoints ==
    (Returned /\ NonEmpty /\ ~IsCommon /\ ~PredictablePattern(password)) =>
        result.score = LengthPoints(password) + ClassPoints(password)
                       + EntropyBonus(result.entropy)

\* a 12+ character password whose only special character is a non-ASCII
\* letter, with the entropy bonus: 3 + (1 + 2) + 2
C6_Witness ==
    /\ Returned /\ NonEmpty /\ ~IsCommon /\ ~PredictablePattern(password)
    /\ \E i \in 1..Len(password) : password[i] = "U+00E9"
    /\ \A i \in 1..Len(password) : password[i] \in LowercaseClass \cup {"U+00E9"}
    /\ Len(password) >= 12
    /\ result.entropy >= 8000
    /\ result.score = 8

\* C7: a password that earns the full length bonus, all four class bonuses
\* and the entropy bonus, with no common or pattern override, scores 12, the
\* largest score; every returned score is in 0..12.
C7_FullMarksIsTwelve ==
    /\ Returned => result.score \in 0..12
    /\ ( /\ Returned /\ NonEmpty /\ ~IsCommon /\ ~PredictablePattern(password)
         /\ Len(password) >= 12
         /\ HasLower(password) /\ HasUpper(password)
         /\ HasDigit(password) /\ HasSpecial(password)
         /\ result.entropy >= 8000 )
       => result.score = 12

\* C8: a later analyze call on a remembered password returns the remembered
\* result, after any calls in between, and no analyze call changes the
\* common set.
C8_Idempotent ==
    /\ []((Returned /\ memo.set /\ memo.password = password) => result = memo.result)
    /\ [][(pc = "ready" /\ pc' = "returned") => common_passwords' = common_passwords]_vars

\* the remembered non-empty password analysed again, two or more calls later,
\* one of them on another password
C8_Witness ==
    /\ Returned /\ NonEmpty
    /\ memo.set /\ memo.password = password
    /\ memo.later >= 2 /\ memo.other
    /\ result = memo.result
    /\ common_passwords # {}

\* the feedback lines a check may append
C9_LengthLines ==
    { <<"Password too short. Use at least ", 8, " characters.">>,
      <<"Excellent! Password length is strong (", 12, "+ characters).">>,
      <<"Good length, but consider ", 12, "+ characters.">> }
C9_ClassNames ==
    <<"lowercase letters", "uppercase letters", "numbers", "special characters">>
C9_ClassLines(k) ==
    { <<"Contains ", C9_ClassNames[k], ": Good.">>,
      <<"Add ", C9_ClassNames[k], " for better strength.">> }
C9_Warnings ==
    IF IsCommon THEN << <<"WARNING: Common password detected! Easily guessable.">> >>
    ELSE IF check_patterns(password)
    THEN << <<"WARNING: Predictable pattern detected (e.g., sequences).">> >>
    ELSE <<>>
C9_Remarks ==
    IF result.entropy < 5000
    THEN << <<"Low entropy; use a longer or more complex password.">> >>
    ELSE IF result.entropy >= 8000
    THEN << <<"High entropy: Excellent brute-force resistance!">> >>
    ELSE <<>>

\* C9: the feedback of a non-empty password is one length line, the four
\* class lines in the order lowercase, uppercase, digits, special, at most
\* one warning (the common warning if common, else the pattern warning if a
\* pattern is detected), the entropy report, and at most one entropy remark.
C9_FeedbackOrder ==
    (Returned /\ NonEmpty) =>
        LET fb == result.feedback
        IN /\ Len(fb) = 6 + Len(C9_Warnings) + Len(C9_Remarks)
           /\ fb[1] \in C9_LengthLines
           /\ \A k \in 1..4 : fb[1 + k] \in C9_ClassLines(k)
           /\ SubSeq(fb, 6, 5 + Len(C9_Warnings)) = C9_Warnings
           /\ fb[6 + Len(C9_Warnings)] = <<"Password entropy: ", result.entropy, " bits.">>
           /\ SubSeq(fb, 7 + Len(C9_Warnings), Len(fb)) = C9_Remarks

\* a common password that also holds a weak substring: one warning only
C9_Witness ==
    /\ Returned /\ NonEmpty /\ IsCommon /\ check_patterns(password)
    /\ Len(result.feedback) = 8
    /\ result.feedback[6] = COMMON_WARNING

\* C10: a non-empty password whose feedback holds the common-password or the
\* predictable-pattern warning is classified Weak.
C10_WarnedIsWeak ==
    (Returned /\ NonEmpty /\ HasWarning(result.feedback)) => result.strength = "Weak"

\* a warned password that still earns the high-entropy bonus after the cap
C10_Witness ==
    /\ Returned /\ NonEmpty
    /\ result.feedback[6] = PATTERN_WARNING
    /\ result.entropy >= 8000
    /\ result.score = 4
    /\ result.strength = "Weak"

====
